---- MODULE Spec2Model ----
(***************************************************************************)
(* Tensor ICP registration (open3d::t::pipelines::registration):           *)
(* GetRegistrationResultAndCorrespondences, EvaluateRegistration and       *)
(* RegistrationICP of Registration.cpp as a state machine.                 *)
(*                                                                         *)
(* Geometry is the planar lattice subgroup of the rigid transforms: points *)
(* are integer pairs, a transform is a rotation by a multiple of 90        *)
(* degrees followed by an integer translation (a 4x4 homogeneous matrix    *)
(* whose rotation block turns about the z axis).  The group is not         *)
(* commutative, so the order of Matmul matters.                            *)
(*                                                                         *)
(* A double is a record: kind "num" with v counted in 1/Scale units, or    *)
(* kind "nan" / "inf" for the IEEE results of 0/0 and x/0.                 *)
(***************************************************************************)
EXTENDS Integers, Sequences, FiniteSets, TLC

\* ------------------------------------------------------------------ bounds
Scale == 10
MaxIteration == 2
\* InternalKvPairManager: the capacity it is constructed with and the device
\* threads that call into its context
max_capacity_ == 3
NumThreads == 2
\* tensor_init: the deepest nesting of an initializer list
MaxDepth == 3

\* ----------------------------------------------------------------- doubles
NaN == [kind |-> "nan", v |-> 0]
Inf == [kind |-> "inf", v |-> 0]
D(n) == [kind |-> "num", v |-> n]
Zero == D(0)
One == D(Scale)

Abs(n) == IF n < 0 THEN -n ELSE n

ISqrt(n) == CHOOSE r \in 0..n : r * r <= n /\ (r + 1) * (r + 1) > n

\* static_cast<double>(a) / static_cast<double>(b), a and b non-negative
DDiv(a, b) ==
    IF b = 0 THEN (IF a = 0 THEN NaN ELSE Inf)
    ELSE D((a * Scale) \div b)

\* std::sqrt
DSqrt(x) ==
    IF x.kind = "num" THEN D(ISqrt(x.v * Scale)) ELSE x

\* std::abs(x - y)
DAbsDiff(x, y) ==
    IF x.kind = "nan" \/ y.kind = "nan" THEN NaN
    ELSE IF x.kind = "inf" /\ y.kind = "inf" THEN NaN
    ELSE IF x.kind = "inf" \/ y.kind = "inf" THEN Inf
    ELSE D(Abs(x.v - y.v))

\* x < y on doubles: false whenever an operand is NaN
DLess(x, y) ==
    /\ x.kind # "nan" /\ y.kind # "nan"
    /\ \/ x.kind = "num" /\ y.kind = "inf"
       \/ x.kind = "num" /\ y.kind = "num" /\ x.v < y.v

\* ---------------------------------------------------------------- geometry
Identity == [r |-> 0, tx |-> 0, ty |-> 0]
TransX == [r |-> 0, tx |-> 1, ty |-> 0]
Rot90 == [r |-> 1, tx |-> 0, ty |-> 0]

RECURSIVE Rot(_, _)
Rot(r, p) == IF r = 0 THEN p ELSE Rot(r - 1, <<-p[2], p[1]>>)

\* the matrix applied to one point: R p + t
Apply(T, p) == LET q == Rot(T.r, p) IN <<q[1] + T.tx, q[2] + T.ty>>

\* core::Tensor::Matmul on two transforms: (A.Matmul(B)) p = A (B p)
Matmul(A, B) ==
    LET t == Rot(A.r, <<B.tx, B.ty>>)
    IN  [r |-> (A.r + B.r) % 4, tx |-> t[1] + A.tx, ty |-> t[2] + A.ty]

\* geometry::PointCloud::Transform on the positions of a cloud
TransformPoints(points, T) == [k \in 1..Len(points) |-> Apply(T, points[k])]

\* core::Tensor::To(device): the same values on the given device
To(tensor, device) == [tensor EXCEPT !.device = device]

SqDist(p, q) == (p[1] - q[1]) * (p[1] - q[1]) + (p[2] - q[2]) * (p[2] - q[2])

RECURSIVE SumSeq(_)
SumSeq(s) == IF s = << >> THEN 0 ELSE Head(s) + SumSeq(Tail(s))

\* ------------------------------------------- nearest neighbor collaborator
\* index (1-based) of the target point nearest to p, lowest index on a tie
Nearest(p, tpoints) ==
    CHOOSE j \in 1..Len(tpoints) :
        \A k \in 1..Len(tpoints) :
            \/ SqDist(p, tpoints[j]) < SqDist(p, tpoints[k])
            \/ SqDist(p, tpoints[j]) = SqDist(p, tpoints[k]) /\ j <= k

WithinRadius(p, tpoints, radius) ==
    /\ Len(tpoints) > 0
    /\ SqDist(p, tpoints[Nearest(p, tpoints)]) <= radius * radius

\* NearestNeighborSearch::Hybrid1NNSearch(query_points, radius): the matched
\* query indices, their target indices (both 0-based) and squared distances;
\* query points without a neighbor within radius are absent.
Hybrid1NNSearch(tpoints, qpoints, radius) ==
    LET all == [k \in 1..Len(qpoints) |-> k]
        hit == SelectSeq(all, LAMBDA k : WithinRadius(qpoints[k], tpoints, radius))
    IN  [first |-> [k \in 1..Len(hit) |-> hit[k] - 1],
         second |-> [k \in 1..Len(hit) |-> Nearest(qpoints[hit[k]], tpoints) - 1],
         distances |-> [k \in 1..Len(hit) |->
                          SqDist(qpoints[hit[k]],
                                 tpoints[Nearest(qpoints[hit[k]], tpoints)])]]

\* -------------------------------------------------------- RegistrationResult
EmptyCorrespondenceSet == [first |-> << >>, second |-> << >>]

\* RegistrationResult(transformation): zero fitness and rmse, no matches
RegistrationResult(transformation) ==
    [transformation_ |-> transformation,
     correspondence_set_ |-> EmptyCorrespondenceSet,
     fitness_ |-> Zero,
     inlier_rmse_ |-> Zero]

NoResult == [transformation_ |-> "none"]
NoError == "none"

\* ------------------------------------------------------------ preconditions
PreconditionError_NoShape(src, tgt, transformation) ==
    IF src.dtype # "Float32" THEN "source dtype"
    ELSE IF tgt.dtype # "Float32" THEN "target dtype"
    ELSE IF tgt.device # src.device THEN "device"
    ELSE IF transformation.dtype # "Float32" THEN "transformation dtype"
    ELSE "none"

\* AssertDtype / device comparison / AssertShape / AssertDtype, in code order;
\* the first failing check raises.
PreconditionError(src, tgt, transformation) ==
    IF src.dtype # "Float32" THEN "source dtype"
    ELSE IF tgt.dtype # "Float32" THEN "target dtype"
    ELSE IF tgt.device # src.device THEN "device"
    ELSE IF transformation.shape # <<4, 4>> THEN "shape"
    ELSE IF transformation.dtype # "Float32" THEN "transformation dtype"
    ELSE NoError

ShortCircuit_Strict(max_distance) == max_distance < 0

\* if (max_correspondence_distance <= 0.0) return result;
ShortCircuit(max_distance) == max_distance <= 0

Fitness_Unset(num_correspondences, length) == Zero

\* result.fitness_
Fitness(num_correspondences, length) == DDiv(num_correspondences, length)

\* result.inlier_rmse_
InlierRmse(squared_error, num_correspondences) ==
    DSqrt(DDiv(squared_error, num_correspondences))

\* the evaluator with the answer of HybridIndex ignored
GetRegistrationResultAndCorrespondences_IgnoreCheck(src, spoints, tgt, check, nn, max_distance, transformation) ==
    LET err == PreconditionError(src, tgt, transformation)
        transformation_device == To(transformation, src.device)
    IN  IF err # NoError
        THEN [raised |-> err, result |-> NoResult, index |-> 0, search |-> 0]
        ELSE IF ShortCircuit(max_distance)
        THEN [raised |-> NoError,
              result |-> RegistrationResult(transformation_device),
              index |-> 0, search |-> 0]
        ELSE [raised |-> NoError,
              result |->
                  [transformation_ |-> transformation,
                   correspondence_set_ |->
                       [first |-> nn.first, second |-> nn.second],
                   fitness_ |-> Fitness(Len(nn.first), Len(spoints)),
                   inlier_rmse_ |->
                       InlierRmse(SumSeq(nn.distances), Len(nn.first))],
              index |-> 1, search |-> 1]

(***************************************************************************)
(* GetRegistrationResultAndCorrespondences.  src and tgt are the cloud     *)
(* objects, spoints the positions of src, check the value that             *)
(* target_nns.HybridIndex returns and nn the value that                    *)
(* target_nns.Hybrid1NNSearch returns when it is called.  The value        *)
(* carries what the call did: raised (the LogError that ended it, or       *)
(* NoError), result, and how many times HybridIndex and Hybrid1NNSearch    *)
(* ran.                                                                    *)
(***************************************************************************)
GetRegistrationResultAndCorrespondences(src, spoints, tgt, check, nn, max_distance, transformation) ==
    LET err == PreconditionError(src, tgt, transformation)
        transformation_device == To(transformation, src.device)
        num_correspondences == Len(nn.first)
        squared_error == SumSeq(nn.distances)
    IN  IF err # NoError
        THEN [raised |-> err, result |-> NoResult, index |-> 0, search |-> 0]
        ELSE IF ShortCircuit(max_distance)
        THEN [raised |-> NoError,
              result |-> RegistrationResult(transformation_device),
              index |-> 0, search |-> 0]
        ELSE IF ~check
        THEN [raised |-> "Index is not set.", result |-> NoResult,
              index |-> 1, search |-> 0]
        ELSE [raised |-> NoError,
              result |->
                  [transformation_ |-> transformation,
                   correspondence_set_ |->
                       [first |-> nn.first, second |-> nn.second],
                   fitness_ |-> Fitness(num_correspondences, Len(spoints)),
                   inlier_rmse_ |->
                       InlierRmse(squared_error, num_correspondences)],
              index |-> 1, search |-> 1]

\* ------------------------------------------------------------------ inputs
Dtypes == {"Float32", "Float64"}
Devices == {"CPU:0", "CUDA:0"}
Shapes == {<<4, 4>>, <<3, 3>>}

CloudA == << <<0, 0>>, <<1, 0>> >>
CloudB == << <<1, 0>>, <<2, 0>> >>
CloudC == << <<0, 3>> >>
Clouds == {<< >>, CloudA, CloudB, CloudC}

Transforms == {Identity, Rot90}
\* what a TransformationEstimation may return
Updates == {Identity, TransX, Rot90}
MaxDistances == {-1, 0, 1, 2}
Thresholds == {Zero, D(Scale \div 2)}
Criterias ==
    [max_iteration_ : 0..MaxIteration,
     relative_fitness_ : Thresholds,
     relative_rmse_ : Thresholds]

\* ------------------------------------------------------------ slot allocator
Slots == 0..(max_capacity_ - 1)
Threads == 1..NumThreads

\* ResetInternalKvPairManagerKernel: ctx.heap_[i] = i for every i < max_capacity_
ResetInternalKvPairManagerKernel(capacity) == [k \in 0..(capacity - 1) |-> k]

\* how the kernel in flight uses the context: calls one after the other,
\* Allocate and Free from concurrent threads, Allocate only from concurrent
\* threads, or SafeAllocate and SafeFree from concurrent threads with nothing
\* assumed of the callers
Uses == {"sequential", "concurrent", "allocate_only", "safe"}

\* a device thread that is in no call
IdleThread == [pc |-> "idle", index |-> 0, ptr |-> 0]

\* -------------------------------------------------------------- tensor_init
\* the sizes a std::initializer_list takes
ListSizes == {0, 1, 2}

\* the nestings of lists of depth d, the scalars not yet filled in
RECURSIVE NestedShapes(_)
NestedShapes(d) ==
    IF d = 0 THEN {0}
    ELSE UNION {[1..n -> NestedShapes(d - 1)] : n \in ListSizes}

\* the scalars filled in: each is the number its position spells, so no two
\* scalars of a list are equal
RECURSIVE Fill(_, _, _)
Fill(t, d, position) ==
    IF d = 0 THEN position
    ELSE [k \in 1..Len(t) |-> Fill(t[k], d - 1, 10 * position + k)]

\* NestedInitializerList<T, D> for D = d
NestedInitializerList(d) == {Fill(t, d, 0) : t \in NestedShapes(d)}

\* utility::LogError raised while a size is computed
Ragged == -1
RaggedError == "Input contains ragged nested sequences(nested lists with unequal sizes or shapes)."

\* InitializerShapeImpl<D>::value(t); Ragged when the call raised, which a
\* caller passes on: Ragged differs from every size
RECURSIVE InitializerShapeImpl(_, _)
InitializerShapeImpl(Dn, t) ==
    IF Dn = 0 THEN Len(t)
    ELSE IF Len(t) = 0 THEN 0
    ELSE LET dim0 == InitializerShapeImpl(Dn - 1, t[1])
         IN  IF \E it \in 1..Len(t) : dim0 # InitializerShapeImpl(Dn - 1, t[it])
             THEN Ragged
             ELSE dim0

\* InitializerShape(t, std::index_sequence<0, ..., N - 1>): the error raised
\* while an entry was computed (or NoError), and the SizeVector
InitializerShape(t, N) ==
    LET sizes == [Dn \in 0..(N - 1) |-> InitializerShapeImpl(Dn, t)]
    IN  IF \E Dn \in 0..(N - 1) : sizes[Dn] = Ragged
        THEN [raised |-> RaggedError, shape |-> << >>]
        ELSE [raised |-> NoError, shape |-> [k \in 1..N |-> sizes[k - 1]]]

LastDim_Full(sizes, last_dim) == Len(sizes) - 1

\* while (shape.size() > (last_dim + 1) && shape[last_dim] != 0) last_dim++;
RECURSIVE LastDim(_, _)
LastDim(sizes, last_dim) ==
    IF Len(sizes) > last_dim + 1 /\ sizes[last_dim + 1] # 0
    THEN LastDim(sizes, last_dim + 1)
    ELSE last_dim

\* SizeVector::resize(n): cut, or filled up with zeros
Resize(sizes, n) == [k \in 1..n |-> IF k <= Len(sizes) THEN sizes[k] ELSE 0]

\* InferShape(t), t of type NestedInitializerList<T, N>
InferShape(t, N) ==
    LET r == InitializerShape(t, N)
    IN  IF r.raised # NoError THEN r
        ELSE [raised |-> NoError, shape |-> Resize(r.shape, LastDim(r.shape, 0) + 1)]

\* SizeVector::NumElements
RECURSIVE NumElements(_)
NumElements(sizes) ==
    IF sizes = << >> THEN 1 ELSE Head(sizes) * NumElements(Tail(sizes))

\* NestedCopy(iter, s): the scalars in the order *iter++ = s assigns them
RECURSIVE NestedCopy(_, _)
NestedCopy(s, d) ==
    IF d = 0 THEN <<s>>
    ELSE IF Len(s) = 0 THEN << >>
    ELSE NestedCopy(Head(s), d - 1) \o NestedCopy(Tail(s), d)

\* --------------------------------------------------------------------- state
VARIABLES
    source,                       \* the caller's source cloud object
    target,                       \* the caller's target cloud object
    transformation,               \* the caller's transformation / init tensor
    max_correspondence_distance,
    index_ok,                     \* what HybridIndex answers for this target and radius
    heap,                         \* the positions each cloud object's buffer holds
    pc,                           \* position in the entry point being run
    criteria,
    transformation_device,
    source_transformed,
    result,
    corres,
    i,
    update,
    prev_fitness_,
    prev_inliner_rmse_,
    ops,                          \* collaborator calls made by the running call
    estimated,                    \* arguments and answer of each ComputeTransformation call
    ret,                          \* what the call returned or raised
    last_eval,                    \* outcome of the last finished EvaluateRegistration
    finished,                     \* the calls finished so far: none, EvaluateRegistration, then RegistrationICP
    heap_,                        \* InternalKvPairManagerContext::heap_
    heap_counter_,                \* the int heap_counter_ points to
    thread,                       \* each device thread's position, local index and argument ptr
    held,                         \* how many times each thread holds each slot
    use,                          \* how the callers use the context
    fault,                        \* a failed device assert or an access outside heap_
    nested_list,                  \* the initializer list a tensor is made from
    dim,                          \* InitializerDim of its type
    shape,                        \* what InferShape returned
    values,                       \* the vector ToFlatVector fills
    values_iter,                  \* how far NestedCopy's iter has moved in values
    init_pc,                      \* position in InferShape / ToFlatVector
    init_error                    \* the error raised, or a write outside values

inputs == <<source, target, transformation, max_correspondence_distance, index_ok>>
locals == <<criteria, transformation_device, source_transformed, result, corres, i, update, prev_fitness_, prev_inliner_rmse_>>
allocator == <<heap_, heap_counter_, thread, held, use, fault>>
registration == <<inputs, heap, pc, locals, ops, estimated, ret, last_eval, finished>>
tensor_init == <<nested_list, dim, shape, values, values_iter, init_pc, init_error>>
vars == <<inputs, heap, pc, locals, ops, estimated, ret, last_eval, finished, allocator, tensor_init>>

NoTensor == [shape |-> << >>, dtype |-> "none", device |-> "none", val |-> Identity]
NoCloud == [device |-> "none", dtype |-> "none", buf |-> "none"]
NoCriteria == [max_iteration_ |-> 0, relative_fitness_ |-> Zero, relative_rmse_ |-> Zero]
NoOps == [nns |-> 0, index |-> 0, search |-> 0, clone |-> 0, transform |-> 0, estimate |-> 0]
NoRet == [status |-> "none", entry |-> "none", error |-> NoError, value |-> NoResult]

Returned(entry, value) == [status |-> "returned", entry |-> entry, error |-> NoError, value |-> value]
Raised(entry, error) == [status |-> "raised", entry |-> entry, error |-> error, value |-> NoResult]

WellFormed(src, tgt, tensor) == PreconditionError(src, tgt, tensor) = NoError

LocalsInit ==
    /\ criteria = NoCriteria
    /\ transformation_device = NoTensor
    /\ source_transformed = NoCloud
    /\ result = NoResult
    /\ corres = EmptyCorrespondenceSet
    /\ i = 0
    /\ update = Identity
    /\ prev_fitness_ = Zero
    /\ prev_inliner_rmse_ = Zero

\* InternalKvPairManager::InternalKvPairManager: the reset heap_, a zero
\* heap_counter_, no call in flight and no slot handed out
Constructed ==
    /\ heap_ = ResetInternalKvPairManagerKernel(max_capacity_)
    /\ heap_counter_ = 0
    /\ thread = [t \in Threads |-> IdleThread]
    /\ held = [t \in Threads |-> [s \in Slots |-> 0]]
    /\ fault = "none"

\* no tensor is being made from an initializer list
NoTensorInit ==
    /\ nested_list = << >>
    /\ dim = 0
    /\ shape = << >>
    /\ values = << >>
    /\ values_iter = 0
    /\ init_pc = "none"
    /\ init_error = NoError

\* what Finish records of the call that ended
Finished(f, entry) ==
    IF f = "none" /\ entry = "EvaluateRegistration" THEN "evaluate"
    ELSE IF f = "evaluate" /\ entry = "RegistrationICP" THEN "evaluate_icp"
    ELSE f

\* NearestNeighborSearch::HybridIndex(radius): false on failure, which an
\* index over no points always is
IndexAnswers(tpoints) == IF tpoints = << >> THEN {FALSE} ELSE BOOLEAN

\* The caller's arguments.  Ill-formed arguments are paired with one pair of
\* clouds; well-formed ones with every pair.
Init ==
    /\ \E spoints \in Clouds, tpoints \in Clouds :
        /\ heap = [source |-> spoints, target |-> tpoints, clone |-> << >>]
        /\ \E sd \in Dtypes, td \in Dtypes, dev \in Devices :
            /\ source = [device |-> "CPU:0", dtype |-> sd, buf |-> "source"]
            /\ target = [device |-> dev, dtype |-> td, buf |-> "target"]
        /\ \E sh \in Shapes, dt \in Dtypes, T \in Transforms :
            transformation = [shape |-> sh, dtype |-> dt, device |-> "CPU:0", val |-> T]
        /\ \/ WellFormed(source, target, transformation)
           \/ spoints = CloudA /\ tpoints = CloudB /\ transformation.val = Rot90
    /\ max_correspondence_distance \in MaxDistances
    /\ index_ok \in IndexAnswers(heap["target"])
    /\ pc = "idle"
    /\ LocalsInit
    /\ ops = NoOps
    /\ estimated = << >>
    /\ ret = NoRet
    /\ last_eval = NoRet
    /\ finished = "none"
    /\ Constructed
    /\ use = "none"
    /\ NoTensorInit

\* ------------------------------------------------------------- cloud objects
\* geometry::PointCloud::Clone: a new object with its own buffer
Clone(cloud) == [cloud EXCEPT !.buf = "clone"]
CloneHeap(h, cloud) == [h EXCEPT !["clone"] = h[cloud.buf]]

\* geometry::PointCloud::Transform: in place, on the object's buffer
TransformHeap(h, cloud, T) == [h EXCEPT ![cloud.buf] = TransformPoints(@, T)]

\* the answer target_nns gives when searched for the positions of cloud
SearchAnswers(cloud, h) ==
    {Hybrid1NNSearch(h[target.buf], h[cloud.buf], max_correspondence_distance)}

\* GetRegistrationResultAndCorrespondences(cloud, target, target_nns,
\* max_correspondence_distance, tensor) as both entry points call it
Evaluation(cloud, h, tensor) ==
    CHOOSE g \in {GetRegistrationResultAndCorrespondences(
                      cloud, h[cloud.buf], target, index_ok, nn,
                      max_correspondence_distance, tensor) :
                  nn \in SearchAnswers(cloud, h)} : TRUE

\* ------------------------------------------------------ EvaluateRegistration
EvaluateRegistration_Check ==
    /\ pc = "idle"
    /\ ops' = NoOps
    /\ estimated' = << >>
    /\ LET err == PreconditionError(source, target, transformation)
       IN  IF err # NoError
           THEN /\ pc' = "raised"
                /\ ret' = Raised("EvaluateRegistration", err)
                /\ last_eval' = ret'
                /\ UNCHANGED transformation_device
           ELSE /\ pc' = "eval_setup"
                /\ transformation_device' = To(transformation, source.device)
                /\ ret' = NoRet
                /\ UNCHANGED last_eval
    /\ UNCHANGED <<inputs, heap, criteria, source_transformed, result, corres, i, update, prev_fitness_, prev_inliner_rmse_, finished, allocator, tensor_init>>

EvaluateRegistration_Setup_NoClone ==
    /\ pc = "eval_setup"
    /\ source_transformed' = source
    /\ heap' = TransformHeap(heap, source_transformed', transformation_device.val)
    /\ ops' = [ops EXCEPT !.nns = @ + 1, !.transform = @ + 1]
    /\ pc' = "eval_return"
    /\ UNCHANGED <<inputs, criteria, transformation_device, result, corres, i, update, prev_fitness_, prev_inliner_rmse_, estimated, ret, last_eval, finished, allocator, tensor_init>>

EvaluateRegistration_Setup ==
    /\ pc = "eval_setup"
    /\ source_transformed' = Clone(source)
    /\ heap' = TransformHeap(CloneHeap(heap, source), source_transformed', transformation_device.val)
    /\ ops' = [ops EXCEPT !.nns = @ + 1, !.clone = @ + 1, !.transform = @ + 1]
    /\ pc' = "eval_return"
    /\ UNCHANGED <<inputs, criteria, transformation_device, result, corres, i, update, prev_fitness_, prev_inliner_rmse_, estimated, ret, last_eval, finished, allocator, tensor_init>>

EvaluateRegistration_Return ==
    /\ pc = "eval_return"
    /\ \E g \in {Evaluation(source_transformed, heap, transformation_device)} :
           /\ ops' = [ops EXCEPT !.index = @ + g.index, !.search = @ + g.search]
           /\ IF g.raised # NoError
              THEN /\ pc' = "raised"
                   /\ ret' = Raised("EvaluateRegistration", g.raised)
              ELSE /\ pc' = "done"
                   /\ ret' = Returned("EvaluateRegistration", g.result)
    /\ last_eval' = ret'
    /\ UNCHANGED <<inputs, heap, locals, estimated, finished, allocator, tensor_init>>

\* ----------------------------------------------------------- RegistrationICP
LoopCondition_OffByOne(iter, crit) == iter <= crit.max_iteration_

\* for (int i = 0; i < criteria.max_iteration_; i++)
LoopCondition(iter, crit) == iter < crit.max_iteration_

Converged_Either(prev_fitness, prev_rmse, res, crit) ==
    \/ DLess(DAbsDiff(prev_fitness, res.fitness_), crit.relative_fitness_)
    \/ DLess(DAbsDiff(prev_rmse, res.inlier_rmse_), crit.relative_rmse_)

\* the ICPConvergenceCriteria test that breaks out of the loop
Converged(prev_fitness, prev_rmse, res, crit) ==
    /\ DLess(DAbsDiff(prev_fitness, res.fitness_), crit.relative_fitness_)
    /\ DLess(DAbsDiff(prev_rmse, res.inlier_rmse_), crit.relative_rmse_)

Compose_Right(upd, cumulative) == [cumulative EXCEPT !.val = Matmul(cumulative.val, upd)]

\* transformation_device = update.Matmul(transformation_device)
Compose(upd, cumulative) == [cumulative EXCEPT !.val = Matmul(upd, cumulative.val)]

RegistrationICP_Check(crit) ==
    /\ pc = "idle"
    /\ ops' = NoOps
    /\ estimated' = << >>
    /\ criteria' = crit
    /\ LET err == PreconditionError(source, target, transformation)
       IN  IF err # NoError
           THEN /\ pc' = "raised"
                /\ ret' = Raised("RegistrationICP", err)
                /\ UNCHANGED transformation_device
           ELSE /\ pc' = "icp_setup"
                /\ transformation_device' = To(transformation, source.device)
                /\ ret' = NoRet
    /\ UNCHANGED <<inputs, heap, source_transformed, result, corres, i, update, prev_fitness_, prev_inliner_rmse_, last_eval, finished, allocator, tensor_init>>

RegistrationICP_Setup_NoClone ==
    /\ pc = "icp_setup"
    /\ source_transformed' = source
    /\ heap' = TransformHeap(heap, source_transformed', transformation_device.val)
    /\ ops' = [ops EXCEPT !.nns = @ + 1, !.transform = @ + 1]
    /\ pc' = "icp_evaluate"
    /\ UNCHANGED <<inputs, criteria, transformation_device, result, corres, i, update, prev_fitness_, prev_inliner_rmse_, estimated, ret, last_eval, finished, allocator, tensor_init>>

RegistrationICP_Setup ==
    /\ pc = "icp_setup"
    /\ source_transformed' = Clone(source)
    /\ heap' = TransformHeap(CloneHeap(heap, source), source_transformed', transformation_device.val)
    /\ ops' = [ops EXCEPT !.nns = @ + 1, !.clone = @ + 1, !.transform = @ + 1]
    /\ pc' = "icp_evaluate"
    /\ UNCHANGED <<inputs, criteria, transformation_device, result, corres, i, update, prev_fitness_, prev_inliner_rmse_, estimated, ret, last_eval, finished, allocator, tensor_init>>

\* the evaluation before the loop, and int i = 0
RegistrationICP_Evaluate ==
    /\ pc = "icp_evaluate"
    /\ \E g \in {Evaluation(source_transformed, heap, transformation_device)} :
           /\ ops' = [ops EXCEPT !.index = @ + g.index, !.search = @ + g.search]
           /\ IF g.raised # NoError
              THEN /\ pc' = "raised"
                   /\ ret' = Raised("RegistrationICP", g.raised)
                   /\ UNCHANGED <<result, corres>>
              ELSE /\ pc' = "icp_loop"
                   /\ result' = g.result
                   /\ corres' = g.result.correspondence_set_
                   /\ UNCHANGED ret
    /\ i' = 0
    /\ UNCHANGED <<inputs, heap, criteria, transformation_device, source_transformed, update, prev_fitness_, prev_inliner_rmse_, estimated, last_eval, finished, allocator, tensor_init>>

RegistrationICP_LoopTest ==
    /\ pc = "icp_loop"
    /\ pc' = IF LoopCondition(i, criteria) THEN "icp_estimate" ELSE "icp_return"
    /\ UNCHANGED <<inputs, heap, locals, ops, estimated, ret, last_eval, finished, allocator, tensor_init>>

\* estimation.ComputeTransformation(source_transformed, target, corres) and
\* the composition of its answer onto the cumulative transformation
RegistrationICP_Estimate(upd) ==
    /\ pc = "icp_estimate"
    /\ estimated' = Append(estimated,
                           [source |-> heap[source_transformed.buf],
                            target |-> heap[target.buf],
                            corres |-> corres,
                            update |-> upd])
    /\ update' = upd
    /\ transformation_device' = Compose(upd, transformation_device)
    /\ ops' = [ops EXCEPT !.estimate = @ + 1]
    /\ pc' = "icp_transform"
    /\ UNCHANGED <<inputs, heap, criteria, source_transformed, result, corres, i, prev_fitness_, prev_inliner_rmse_, ret, last_eval, finished, allocator, tensor_init>>

RegistrationICP_Transform ==
    /\ pc = "icp_transform"
    /\ heap' = TransformHeap(heap, source_transformed, update)
    /\ ops' = [ops EXCEPT !.transform = @ + 1]
    /\ prev_fitness_' = result.fitness_
    /\ prev_inliner_rmse_' = result.inlier_rmse_
    /\ pc' = "icp_reevaluate"
    /\ UNCHANGED <<inputs, criteria, transformation_device, source_transformed, result, corres, i, update, estimated, ret, last_eval, finished, allocator, tensor_init>>

RegistrationICP_Reevaluate_StaleCorres ==
    /\ pc = "icp_reevaluate"
    /\ \E g \in {Evaluation(source_transformed, heap, transformation_device)} :
           /\ ops' = [ops EXCEPT !.index = @ + g.index, !.search = @ + g.search]
           /\ IF g.raised # NoError
              THEN /\ pc' = "raised"
                   /\ ret' = Raised("RegistrationICP", g.raised)
                   /\ UNCHANGED <<result, corres>>
              ELSE /\ pc' = "icp_converged"
                   /\ result' = g.result
                   /\ UNCHANGED <<corres, ret>>
    /\ UNCHANGED <<inputs, heap, criteria, transformation_device, source_transformed, i, update, prev_fitness_, prev_inliner_rmse_, estimated, last_eval, finished, allocator, tensor_init>>

RegistrationICP_Reevaluate ==
    /\ pc = "icp_reevaluate"
    /\ \E g \in {Evaluation(source_transformed, heap, transformation_device)} :
           /\ ops' = [ops EXCEPT !.index = @ + g.index, !.search = @ + g.search]
           /\ IF g.raised # NoError
              THEN /\ pc' = "raised"
                   /\ ret' = Raised("RegistrationICP", g.raised)
                   /\ UNCHANGED <<result, corres>>
              ELSE /\ pc' = "icp_converged"
                   /\ result' = g.result
                   /\ corres' = g.result.correspondence_set_
                   /\ UNCHANGED ret
    /\ UNCHANGED <<inputs, heap, criteria, transformation_device, source_transformed, i, update, prev_fitness_, prev_inliner_rmse_, estimated, last_eval, finished, allocator, tensor_init>>

\* break, or i++ and back to the loop condition
RegistrationICP_Converged ==
    /\ pc = "icp_converged"
    /\ IF Converged(prev_fitness_, prev_inliner_rmse_, result, criteria)
       THEN pc' = "icp_return" /\ UNCHANGED i
       ELSE pc' = "icp_loop" /\ i' = i + 1
    /\ UNCHANGED <<inputs, heap, criteria, transformation_device, source_transformed, result, corres, update, prev_fitness_, prev_inliner_rmse_, ops, estimated, ret, last_eval, finished, allocator, tensor_init>>

RegistrationICP_Return ==
    /\ pc = "icp_return"
    /\ ret' = Returned("RegistrationICP", result)
    /\ pc' = "done"
    /\ UNCHANGED <<inputs, heap, locals, ops, estimated, last_eval, finished, allocator, tensor_init>>

\* the call is over: its locals and working copy are destroyed
Finish ==
    /\ pc \in {"done", "raised"}
    /\ pc' = "idle"
    /\ heap' = [heap EXCEPT !["clone"] = << >>]
    /\ criteria' = NoCriteria
    /\ transformation_device' = NoTensor
    /\ source_transformed' = NoCloud
    /\ result' = NoResult
    /\ corres' = EmptyCorrespondenceSet
    /\ i' = 0
    /\ update' = Identity
    /\ prev_fitness_' = Zero
    /\ prev_inliner_rmse_' = Zero
    /\ ops' = NoOps
    /\ estimated' = << >>
    /\ ret' = NoRet
    /\ finished' = Finished(finished, ret.entry)
    /\ UNCHANGED <<inputs, last_eval, allocator, tensor_init>>

Next ==
    \/ EvaluateRegistration_Check
    \/ EvaluateRegistration_Setup
    \/ EvaluateRegistration_Return
    \/ \E crit \in Criterias : RegistrationICP_Check(crit)
    \/ RegistrationICP_Setup
    \/ RegistrationICP_Evaluate
    \/ RegistrationICP_LoopTest
    \/ \E upd \in Updates : RegistrationICP_Estimate(upd)
    \/ RegistrationICP_Transform
    \/ RegistrationICP_Reevaluate
    \/ RegistrationICP_Converged
    \/ RegistrationICP_Return
    \/ Finish

Spec == Init /\ [][Next]_vars

\* The arguments used where termination is checked: one source, two
\* targets, a rotation as init, a zero and a positive distance, and every
\* device and shape.
InitFair ==
    /\ Init
    /\ heap["source"] = CloudA
    /\ heap["target"] \in {CloudB, CloudC}
    /\ transformation.val = Rot90
    /\ max_correspondence_distance \in {0, 2}
    /\ source.dtype = "Float32" /\ target.dtype = "Float32"
    /\ transformation.dtype = "Float32"

\* a started call runs on: the entry points are sequential code
FairSpec == InitFair /\ [][Next]_vars /\ WF_vars(Next)

\* ------------------------------------------------- InternalKvPairManagerContext
atomicAdd_Lost(counter, val) == [old |-> counter, new |-> counter]

\* atomicAdd(address, val): the value read and the value stored, in one step
atomicAdd(counter, val) == [old |-> counter, new |-> counter + val]

\* atomicSub(address, val)
atomicSub(counter, val) == [old |-> counter, new |-> counter - val]

FreeIndex_Counter(index) == index

\* heap_[index - 1] = ptr
FreeIndex(index) == index - 1

RECURSIVE Total(_, _)
Total(f, S) ==
    IF S = {} THEN 0
    ELSE LET x == CHOOSE y \in S : TRUE IN f[x] + Total(f, S \ {x})

\* how many callers hold slot s, and how many slots are handed out
Holders(s) == Total([t \in Threads |-> held[t][s]], Threads)
Outstanding == Total([s \in Slots |-> Holders(s)], Slots)
InCall(kinds) == Cardinality({t \in Threads : thread[t].pc \in kinds})
Quiescent == \A t \in Threads : thread[t].pc = "idle"

\* what the callers keep to in each use: no more than max_capacity_ slots
\* asked for, calls one at a time where the use is sequential
MayAllocate(t) ==
    /\ thread[t].pc = "idle"
    /\ fault = "none"
    /\ use = "sequential" => Quiescent
    /\ use # "safe" => Outstanding + InCall({"Allocate"}) < max_capacity_

\* a caller frees a slot it holds; where nothing is assumed of the callers
\* it may also free when no slot is handed out at all
MayFree(t, ptr) ==
    /\ thread[t].pc = "idle"
    /\ fault = "none"
    /\ use = "sequential" => Quiescent
    /\ \/ held[t][ptr] > 0
       \/ use = "safe" /\ Outstanding = 0

Take(h, t, ptr) == [h EXCEPT ![t][ptr] = @ + 1]
Give(h, t, ptr) == [h EXCEPT ![t][ptr] = IF @ > 0 THEN @ - 1 ELSE 0]

\* return heap_[index]: the slot read, or any value when index is outside
\* heap_
HeapRead(index) == IF index \in DOMAIN heap_ THEN {heap_[index]} ELSE Slots

\* int index = atomicAdd(heap_counter_, 1);
Allocate_AtomicAdd(t) ==
    /\ use \in {"sequential", "concurrent", "allocate_only"}
    /\ MayAllocate(t)
    /\ LET a == atomicAdd(heap_counter_, 1)
       IN  /\ heap_counter_' = a.new
           /\ thread' = [thread EXCEPT ![t] = [pc |-> "Allocate", index |-> a.old, ptr |-> 0]]
    /\ UNCHANGED <<heap_, held, use, fault, registration, tensor_init>>

\* return heap_[index];
Allocate_Return(t) ==
    /\ thread[t].pc = "Allocate"
    /\ fault = "none"
    /\ \E ptr \in HeapRead(thread[t].index) : held' = Take(held, t, ptr)
    /\ fault' = IF thread[t].index \in DOMAIN heap_ THEN fault ELSE "out_of_bounds"
    /\ thread' = [thread EXCEPT ![t] = IdleThread]
    /\ UNCHANGED <<heap_, heap_counter_, use, registration, tensor_init>>

SafeAllocate_AtomicAdd(t) ==
    /\ use = "safe"
    /\ MayAllocate(t)
    /\ LET a == atomicAdd(heap_counter_, 1)
       IN  /\ heap_counter_' = a.new
           /\ thread' = [thread EXCEPT ![t] = [pc |-> "SafeAllocate", index |-> a.old, ptr |-> 0]]
    /\ UNCHANGED <<heap_, held, use, fault, registration, tensor_init>>

\* assert(index < max_capacity_); return heap_[index];
SafeAllocate_Return(t) ==
    /\ thread[t].pc = "SafeAllocate"
    /\ fault = "none"
    /\ IF thread[t].index < max_capacity_
       THEN /\ \E ptr \in HeapRead(thread[t].index) : held' = Take(held, t, ptr)
            /\ fault' = IF thread[t].index \in DOMAIN heap_ THEN fault ELSE "out_of_bounds"
            /\ thread' = [thread EXCEPT ![t] = IdleThread]
       ELSE /\ fault' = "assert"
            /\ thread' = [thread EXCEPT ![t].pc = "assert_failed"]
            /\ UNCHANGED held
    /\ UNCHANGED <<heap_, heap_counter_, use, registration, tensor_init>>

\* int index = atomicSub(heap_counter_, 1);
Free_AtomicSub(t, ptr) ==
    /\ use \in {"sequential", "concurrent"}
    /\ MayFree(t, ptr)
    /\ LET a == atomicSub(heap_counter_, 1)
       IN  /\ heap_counter_' = a.new
           /\ thread' = [thread EXCEPT ![t] = [pc |-> "Free", index |-> a.old, ptr |-> ptr]]
    /\ held' = Give(held, t, ptr)
    /\ UNCHANGED <<heap_, use, fault, registration, tensor_init>>

\* heap_[index - 1] = ptr;
Free_Write(t) ==
    /\ thread[t].pc = "Free"
    /\ fault = "none"
    /\ LET at == FreeIndex(thread[t].index)
       IN  IF at \in DOMAIN heap_
           THEN heap_' = [heap_ EXCEPT ![at] = thread[t].ptr] /\ UNCHANGED fault
           ELSE fault' = "out_of_bounds" /\ UNCHANGED heap_
    /\ thread' = [thread EXCEPT ![t] = IdleThread]
    /\ UNCHANGED <<heap_counter_, held, use, registration, tensor_init>>

SafeFree_AtomicSub(t, ptr) ==
    /\ use = "safe"
    /\ MayFree(t, ptr)
    /\ LET a == atomicSub(heap_counter_, 1)
       IN  /\ heap_counter_' = a.new
           /\ thread' = [thread EXCEPT ![t] = [pc |-> "SafeFree", index |-> a.old, ptr |-> ptr]]
    /\ held' = Give(held, t, ptr)
    /\ UNCHANGED <<heap_, use, fault, registration, tensor_init>>

\* assert(index >= 1); heap_[index - 1] = ptr;
SafeFree_Write(t) ==
    /\ thread[t].pc = "SafeFree"
    /\ fault = "none"
    /\ IF thread[t].index >= 1
       THEN /\ LET at == FreeIndex(thread[t].index)
               IN  IF at \in DOMAIN heap_
                   THEN heap_' = [heap_ EXCEPT ![at] = thread[t].ptr] /\ UNCHANGED fault
                   ELSE fault' = "out_of_bounds" /\ UNCHANGED heap_
            /\ thread' = [thread EXCEPT ![t] = IdleThread]
       ELSE /\ fault' = "assert"
            /\ thread' = [thread EXCEPT ![t].pc = "assert_failed"]
            /\ UNCHANGED heap_
    /\ UNCHANGED <<heap_counter_, held, use, registration, tensor_init>>

\* no EvaluateRegistration or RegistrationICP call is made
NoRegistration ==
    /\ source = NoCloud /\ target = NoCloud /\ transformation = NoTensor
    /\ max_correspondence_distance = 0
    /\ index_ok = FALSE
    /\ heap = [source |-> << >>, target |-> << >>, clone |-> << >>]
    /\ pc = "idle"
    /\ LocalsInit
    /\ ops = NoOps
    /\ estimated = << >>
    /\ ret = NoRet
    /\ last_eval = NoRet
    /\ finished = "none"

\* the context as the constructor leaves it, and a kernel that uses it
AllocatorInit ==
    /\ Constructed
    /\ use \in Uses
    /\ NoRegistration
    /\ NoTensorInit

AllocatorNext ==
    \/ \E t \in Threads : Allocate_AtomicAdd(t)
    \/ \E t \in Threads : Allocate_Return(t)
    \/ \E t \in Threads : SafeAllocate_AtomicAdd(t)
    \/ \E t \in Threads : SafeAllocate_Return(t)
    \/ \E t \in Threads, ptr \in Slots : Free_AtomicSub(t, ptr)
    \/ \E t \in Threads : Free_Write(t)
    \/ \E t \in Threads, ptr \in Slots : SafeFree_AtomicSub(t, ptr)
    \/ \E t \in Threads : SafeFree_Write(t)

AllocatorSpec == AllocatorInit /\ [][AllocatorNext]_vars

\* kernels that keep to the phases the heap_ comment describes: calls one
\* after the other, or concurrent Allocate calls with no Free among them
PhasedInit ==
    /\ AllocatorInit
    /\ use \in {"sequential", "allocate_only"}

PhasedNext ==
    \/ \E t \in Threads : Allocate_AtomicAdd(t)
    \/ \E t \in Threads : Allocate_Return(t)
    \/ \E t \in Threads, ptr \in Slots : Free_AtomicSub(t, ptr)
    \/ \E t \in Threads : Free_Write(t)

PhasedSpec == PhasedInit /\ [][PhasedNext]_vars

\* ---------------------------------------------------------------- tensor_init
\* a tensor is made from a nested initializer list: InferShape, then
\* ToFlatVector with the shape it returned
InferShape_Call ==
    /\ init_pc = "start"
    /\ LET r == InferShape(nested_list, dim)
       IN  IF r.raised # NoError
           THEN /\ init_error' = r.raised
                /\ init_pc' = "raised"
                /\ UNCHANGED shape
           ELSE /\ shape' = r.shape
                /\ init_pc' = "inferred"
                /\ UNCHANGED init_error
    /\ UNCHANGED <<nested_list, dim, values, values_iter, registration, allocator>>

\* std::vector<T> values(shape.NumElements());
ToFlatVector_Allocate ==
    /\ init_pc = "inferred"
    /\ values' = [k \in 1..NumElements(shape) |-> 0]
    /\ values_iter' = 0
    /\ init_pc' = "copying"
    /\ UNCHANGED <<nested_list, dim, shape, init_error, registration, allocator>>

\* *iter++ = s, for the next scalar of NestedCopy(values.begin(), nested_list);
\* past the end of values the assignment is outside the vector's storage
NestedCopy_Assign ==
    /\ init_pc = "copying"
    /\ values_iter < Len(NestedCopy(nested_list, dim))
    /\ IF values_iter < Len(values)
       THEN /\ values' = [values EXCEPT ![values_iter + 1] = NestedCopy(nested_list, dim)[values_iter + 1]]
            /\ values_iter' = values_iter + 1
            /\ UNCHANGED <<init_pc, init_error>>
       ELSE /\ init_error' = "out_of_bounds"
            /\ init_pc' = "fault"
            /\ UNCHANGED <<values, values_iter>>
    /\ UNCHANGED <<nested_list, dim, shape, registration, allocator>>

\* return values;
ToFlatVector_Return ==
    /\ init_pc = "copying"
    /\ values_iter = Len(NestedCopy(nested_list, dim))
    /\ init_pc' = "done"
    /\ UNCHANGED <<nested_list, dim, shape, values, values_iter, init_error, registration, allocator>>

\* the initializer-list overloads take lists of depth 1 and more
TensorInit ==
    /\ dim \in 1..MaxDepth
    /\ nested_list \in NestedInitializerList(dim)
    /\ shape = << >>
    /\ values = << >>
    /\ values_iter = 0
    /\ init_pc = "start"
    /\ init_error = NoError
    /\ Constructed
    /\ use = "none"
    /\ NoRegistration

TensorNext ==
    \/ InferShape_Call
    \/ ToFlatVector_Allocate
    \/ NestedCopy_Assign
    \/ ToFlatVector_Return

TensorSpec == TensorInit /\ [][TensorNext]_vars

\* ------------------------------------------------------------------- claims
IcpPcs == {"icp_setup", "icp_evaluate", "icp_loop", "icp_estimate", "icp_transform", "icp_reevaluate", "icp_converged", "icp_return"}
\* positions of RegistrationICP at which result holds the latest evaluation
IcpEvaluatedPcs == {"icp_loop", "icp_estimate", "icp_transform", "icp_converged", "icp_return"}

IsZeroResult(res) ==
    /\ res.fitness_ = Zero
    /\ res.inlier_rmse_ = Zero
    /\ res.correspondence_set_ = EmptyCorrespondenceSet

\* C1: with max_correspondence_distance <= 0 neither entry point calls
\* HybridIndex or Hybrid1NNSearch, every evaluation made inside
\* RegistrationICP leaves a result with fitness 0, inlier_rmse 0 and no
\* correspondences, and so does every result either entry point returns;
\* well-formed arguments never raise.
C1_ShortCircuit ==
    max_correspondence_distance <= 0 =>
        /\ ops.index = 0
        /\ ops.search = 0
        /\ pc \in IcpEvaluatedPcs => IsZeroResult(result)
        /\ ret.status = "returned" => IsZeroResult(ret.value)
        /\ last_eval.status = "returned" => IsZeroResult(last_eval.value)
        /\ pc = "raised" => ret.error \notin {"Index is not set."}

C1_Witness ==
    /\ max_correspondence_distance <= 0
    /\ last_eval.status = "returned"
    /\ ret.status = "returned"
    /\ ret.entry = "RegistrationICP"
    /\ ops.estimate >= 1
    /\ Len(heap["source"]) > 0
    /\ heap["source"] = heap["target"]

\* C2: a result produced with max_correspondence_distance > 0 and no valid
\* match has inlier_rmse 0 (stated for a source that has points, where the
\* fitness is a number).
C2_RmseZeroWithoutMatches ==
    /\ (/\ ret.status = "returned"
        /\ max_correspondence_distance > 0
        /\ Len(heap["source"]) > 0
        /\ ret.value.correspondence_set_.first = << >>)
       => ret.value.inlier_rmse_ = Zero

\* C3: RegistrationICP with max_iteration_ = 0 never calls the estimator and
\* ends as EvaluateRegistration on the same arguments ended: the same
\* result (transformation, correspondences, fitness, inlier_rmse), or the
\* same error.
C3_ZeroIterations ==
    (/\ pc \in {"done", "raised"}
     /\ ret.entry = "RegistrationICP"
     /\ criteria.max_iteration_ = 0)
    => /\ ops.estimate = 0
       /\ estimated = << >>
       /\ last_eval.status # "none" =>
            /\ ret.status = last_eval.status
            /\ ret.error = last_eval.error
            /\ ret.value = last_eval.value

C3_Witness ==
    /\ pc = "done"
    /\ ret.entry = "RegistrationICP"
    /\ criteria.max_iteration_ = 0
    /\ last_eval.status = "returned"
    /\ ret.value.fitness_ = D(Scale \div 2)
    /\ transformation.val = Rot90

AbsDiffBelow(x, y, threshold) ==
    /\ x.kind = "num" /\ y.kind = "num" /\ threshold.kind = "num"
    /\ (IF x.v >= y.v THEN x.v - y.v ELSE y.v - x.v) < threshold.v

\* C4: the values compared are the fitness and rmse before and after the
\* iteration's re-evaluation; the loop is left after an iteration exactly
\* when both absolute differences are strictly below their thresholds,
\* otherwise i is incremented and the loop condition is tested again; the
\* loop condition alone ends the loop only at i >= max_iteration_.
C4_ConvergenceTest ==
    [][/\ pc = "icp_reevaluate" /\ pc' = "icp_converged" =>
            /\ prev_fitness_' = result.fitness_
            /\ prev_inliner_rmse_' = result.inlier_rmse_
       /\ pc = "icp_converged" =>
            IF /\ AbsDiffBelow(prev_fitness_, result.fitness_, criteria.relative_fitness_)
               /\ AbsDiffBelow(prev_inliner_rmse_, result.inlier_rmse_, criteria.relative_rmse_)
            THEN pc' = "icp_return" /\ i' = i
            ELSE pc' = "icp_loop" /\ i' = i + 1
       /\ pc = "icp_loop" =>
            (pc' = "icp_return" <=> i >= criteria.max_iteration_)
      ]_vars

\* left by convergence after the first of two iterations, the rmse having
\* moved by less than the threshold but not by zero
C4_Witness ==
    /\ pc = "icp_return"
    /\ ops.estimate = 1
    /\ criteria.max_iteration_ = 2
    /\ prev_inliner_rmse_ # result.inlier_rmse_
    /\ prev_inliner_rmse_.kind = "num"

IcpCall == pc \in IcpPcs \/ (pc \in {"done", "raised"} /\ ret.entry = "RegistrationICP")

\* C5: RegistrationICP always ends, by a return or a raised error, and when
\* the index can be set (or the distance is not positive) by a return; a run
\* makes at most max_iteration_ estimator calls and max_iteration_ + 1
\* evaluations, and leaving the loop at i = max_iteration_ returns the
\* current result.
C5_Terminates ==
    /\ [](IcpCall =>
            /\ i <= criteria.max_iteration_
            /\ ops.estimate <= criteria.max_iteration_
            /\ ops.search <= ops.estimate + 1
            /\ ops.transform <= ops.estimate + 1
            /\ pc = "done" =>
                 /\ ret.status = "returned" /\ ret.value = result
                 /\ ops.transform = ops.estimate + 1
                 /\ max_correspondence_distance > 0 => ops.search = ops.estimate + 1
            /\ pc = "raised" => ret.status = "raised")
    /\ (pc \in IcpPcs) ~> (pc \in {"done", "raised"})
    /\ (pc \in IcpPcs /\ (index_ok \/ max_correspondence_distance <= 0))
          ~> (pc = "done" /\ ret.status = "returned")

\* the loop ran out of iterations without converging and the result was returned
C5_Witness ==
    /\ pc = "done"
    /\ ret.entry = "RegistrationICP"
    /\ ret.status = "returned"
    /\ criteria.max_iteration_ = MaxIteration
    /\ i = MaxIteration
    /\ ops.estimate = MaxIteration
    /\ ~Converged(prev_fitness_, prev_inliner_rmse_, result, criteria)

\* C6: one RegistrationICP run builds the neighbor index (HybridIndex) at
\* most once (stated for a source that has points).
C6_IndexBuiltOnce == (IcpCall /\ Len(heap["source"]) > 0) => ops.index <= 1

PreconditionViolated ==
    \/ target.device # source.device
    \/ target.dtype # source.dtype
    \/ transformation.shape # <<4, 4>>
    \/ transformation.dtype # source.dtype

\* C7: with a precondition violated, either entry point raises at its
\* argument checks: no NearestNeighborSearch is constructed, no clone made,
\* nothing transformed, searched or estimated, and no result is returned.
C7_FailFast ==
    PreconditionViolated =>
        /\ pc \in {"idle", "raised"}
        /\ pc = "raised" => ret.status = "raised" /\ ret.error # "Index is not set."
        /\ ops = NoOps
        /\ estimated = << >>
        /\ heap["clone"] = << >>
        /\ source_transformed = NoCloud
        /\ transformation_device = NoTensor
        /\ ret.status # "returned"
        /\ last_eval.status # "returned"

C7_Witness ==
    /\ PreconditionViolated
    /\ transformation.shape # <<4, 4>>
    /\ source.dtype = "Float32" /\ target.dtype = "Float32"
    /\ target.device = source.device
    /\ pc = "raised"
    /\ ret.entry = "RegistrationICP"
    /\ last_eval.status = "raised"

RECURSIVE LeftProduct(_, _)
LeftProduct(calls, T) ==
    IF calls = << >> THEN T
    ELSE LeftProduct(Tail(calls), Matmul(Head(calls).update, T))

RECURSIVE AppliedInOrder(_, _)
AppliedInOrder(calls, points) ==
    IF calls = << >> THEN points
    ELSE AppliedInOrder(Tail(calls), TransformPoints(points, Head(calls).update))

\* C8: after the initial evaluation and after every iteration k the
\* cumulative transformation is update_k * ... * update_1 * init, the
\* working copy is the source with init and then update_1 .. update_k
\* applied, the current result is the evaluation of that working copy and
\* carries the cumulative transformation; so does the returned result.
C8_Cumulative ==
    /\ pc \in {"icp_loop", "icp_converged", "icp_return"} =>
        /\ Len(estimated) = ops.estimate
        /\ transformation_device.val = LeftProduct(estimated, transformation.val)
        /\ heap["clone"] =
             AppliedInOrder(estimated, TransformPoints(heap["source"], transformation.val))
        /\ source_transformed.buf = "clone"
        /\ result = Evaluation(source_transformed, heap, transformation_device).result
        /\ result.transformation_ = transformation_device
    /\ (pc = "done" /\ ret.entry = "RegistrationICP") =>
        /\ ret.value = result
        /\ ret.value.transformation_.val = LeftProduct(estimated, transformation.val)

\* two iterations whose updates do not commute with each other, on an init
\* that is not the identity
C8_Witness ==
    /\ pc = "done"
    /\ ret.entry = "RegistrationICP"
    /\ Len(estimated) = 2
    /\ transformation.val # Identity
    /\ Matmul(estimated[1].update, estimated[2].update)
         # Matmul(estimated[2].update, estimated[1].update)
    /\ ret.value.fitness_ = One

\* C9: no step of either entry point changes the caller's source cloud,
\* target cloud or transformation, and whenever a step applies a transform
\* the cloud transformed is a working copy with a buffer of its own.
C9_CallerUnchanged ==
    [][/\ source' = source
       /\ target' = target
       /\ transformation' = transformation
       /\ heap'["source"] = heap["source"]
       /\ heap'["target"] = heap["target"]
       /\ ops'.transform > ops.transform =>
            source_transformed'.buf \notin {source.buf, target.buf}
      ]_vars

\* after the initial transform and two increments the working copy differs
\* from the source
C9_Witness ==
    /\ pc = "done"
    /\ ret.entry = "RegistrationICP"
    /\ ops.transform = 3
    /\ heap["clone"] # heap["source"]
    /\ last_eval.status = "returned"

\* C10 as stated: identical clouds and the identity give fitness 1 and rmse 0
\* (stated for clouds that have points).
C10_IdenticalClouds ==
    (/\ ret.status = "returned"
     /\ ret.entry = "EvaluateRegistration"
     /\ heap["source"] = heap["target"]
     /\ Len(heap["source"]) > 0
     /\ transformation.val = Identity)
    => /\ ret.value.fitness_ = One
       /\ ret.value.inlier_rmse_ = Zero

\* C10 amended: identical clouds, the identity and a positive
\* max_correspondence_distance give fitness 1 and rmse 0 in every result
\* EvaluateRegistration returns.
C10_IdenticalCloudsPositiveDistance ==
    (/\ ret.status = "returned"
     /\ ret.entry = "EvaluateRegistration"
     /\ heap["source"] = heap["target"]
     /\ transformation.val = Identity
     /\ max_correspondence_distance > 0)
    => /\ ret.value.fitness_ = One
       /\ ret.value.inlier_rmse_ = Zero
       /\ Len(ret.value.correspondence_set_.first) = Len(heap["source"])

C10_Witness ==
    /\ ret.status = "returned"
    /\ ret.entry = "EvaluateRegistration"
    /\ heap["source"] = heap["target"]
    /\ Len(heap["source"]) = 2
    /\ transformation.val = Identity
    /\ max_correspondence_distance > 0
    /\ ret.value.fitness_ = One

Distinct(s) == \A j, k \in 1..Len(s) : j # k => s[j] # s[k]

\* C11: every returned result, whatever the clouds, has a fitness that is a
\* number in [0, 1], equal to matches / source points where the source has
\* points; the two index sequences have equal length and no source point is
\* matched twice.
C11_FitnessRatio ==
    ret.status = "returned" =>
        LET cs == ret.value.correspondence_set_
            n == Len(heap["source"])
        IN  /\ Len(cs.first) = Len(cs.second)
            /\ Len(cs.first) <= n
            /\ Distinct(cs.first)
            /\ ret.value.fitness_.kind = "num"
            /\ ret.value.fitness_.v \in 0..Scale
            /\ n > 0 => ret.value.fitness_.v = (Len(cs.first) * Scale) \div n

\* C12: when HybridIndex reports failure and max_correspondence_distance > 0,
\* the evaluation raises "Index is not set.": Hybrid1NNSearch is never run,
\* neither entry point returns a result, and RegistrationICP ends at that
\* evaluation, before any estimator call, with the error and no result (a
\* call that raises before constructing the search raised at its argument
\* checks).
C12_IndexNotSet ==
    (~index_ok /\ max_correspondence_distance > 0) =>
        /\ ops.search = 0
        /\ ops.estimate = 0
        /\ ret.status # "returned"
        /\ last_eval.status # "returned"
        /\ pc \in {"idle", "eval_setup", "eval_return", "icp_setup", "icp_evaluate", "raised"}
        /\ (pc = "raised" /\ ops.nns > 0) =>
               /\ ret = Raised(ret.entry, "Index is not set.")
               /\ ops.index = 1
               /\ result = NoResult

\* RegistrationICP ended by the index error, after an EvaluateRegistration
\* that ended the same way
C12_Witness ==
    /\ ~index_ok
    /\ max_correspondence_distance > 0
    /\ Len(heap["source"]) > 0
    /\ Len(heap["target"]) > 0
    /\ pc = "raised"
    /\ ret.entry = "RegistrationICP"
    /\ ret.error = "Index is not set."
    /\ criteria.max_iteration_ > 0
    /\ last_eval.error = "Index is not set."

\* C13: an entry point rejects its arguments only when the clouds are on
\* different devices, the transformation is not 4x4, or source, target and
\* transformation do not share one precision; arguments that share a
\* precision, whichever it is, pass the argument checks.
C13_AcceptsSharedPrecision ==
    (pc = "raised" /\ ret.error # "Index is not set.") => PreconditionViolated

\* C14: once EvaluateRegistration has ended for these arguments, every later
\* EvaluateRegistration call on them ends the same way, with the same
\* transformation, correspondence set, fitness and inlier_rmse, whatever
\* calls ran in between (the arguments are the caller's, which no step
\* changes).
C14_Idempotent ==
    [][/\ last_eval.status # "none" => last_eval' = last_eval
       /\ (pc = "eval_return" /\ last_eval.status # "none") =>
             /\ ret'.status = last_eval.status
             /\ ret'.error = last_eval.error
             /\ ret'.value = last_eval.value
      ]_vars

\* the second EvaluateRegistration has returned, a RegistrationICP run that
\* iterated having come between the two; the transformation is a rotation
C14_Witness ==
    /\ finished = "evaluate_icp"
    /\ pc = "done"
    /\ ret.entry = "EvaluateRegistration"
    /\ ret = last_eval
    /\ transformation.val = Rot90
    /\ ret.value.fitness_ = One
    /\ ret.value.inlier_rmse_ # Zero

\* every estimator call so far was given an empty correspondence set and
\* answered the identity
EmptySetsGiveIdentity ==
    \A k \in 1..Len(estimated) :
        /\ estimated[k].corres = EmptyCorrespondenceSet
        /\ estimated[k].update = Identity

\* C15: in a RegistrationICP run with max_correspondence_distance > 0 whose
\* evaluations find no match and whose estimator answers the identity for
\* the empty set, every evaluation leaves transformation = init, fitness 0
\* and inlier_rmse 0, and with positive thresholds the run converges after
\* its first iteration and returns that result (stated for a source that
\* has points).
C15_ZeroCorrespondences ==
    (/\ IcpCall
     /\ max_correspondence_distance > 0
     /\ Len(heap["source"]) > 0
     /\ EmptySetsGiveIdentity)
    => /\ (pc \in IcpEvaluatedPcs /\ corres = EmptyCorrespondenceSet) =>
             /\ result.transformation_.val = transformation.val
             /\ result.fitness_ = Zero
             /\ result.inlier_rmse_ = Zero
       /\ (/\ pc = "done"
           /\ ret.value.correspondence_set_ = EmptyCorrespondenceSet
           /\ criteria.max_iteration_ >= 1
           /\ criteria.relative_fitness_ # Zero
           /\ criteria.relative_rmse_ # Zero) =>
             /\ ops.estimate = 1
             /\ ret.value.transformation_.val = transformation.val
             /\ ret.value.fitness_ = Zero
             /\ ret.value.inlier_rmse_ = Zero

\* the correspondence set an evaluation of points against tpoints yields
SearchedCorrespondences(points, tpoints) ==
    IF max_correspondence_distance <= 0 THEN EmptyCorrespondenceSet
    ELSE LET nn == Hybrid1NNSearch(tpoints, points, max_correspondence_distance)
         IN  [first |-> nn.first, second |-> nn.second]

\* C16: the estimator call of iteration k (counted from 1) is given the
\* working source as it is after init and the first k - 1 updates, the
\* caller's target, and the correspondence set that the evaluation of
\* exactly that working source produced; within an iteration the steps are
\* estimate and compose, transform the working copy, re-evaluate, test
\* convergence, and the next iteration starts only after that test.
C16_EstimatorInputs ==
    /\ [](IcpCall =>
            /\ \A k \in 1..Len(estimated) :
                 /\ estimated[k].source =
                      AppliedInOrder(SubSeq(estimated, 1, k - 1),
                                     TransformPoints(heap["source"], transformation.val))
                 /\ estimated[k].target = heap["target"]
                 /\ estimated[k].corres =
                      SearchedCorrespondences(estimated[k].source, heap["target"])
            /\ pc \in {"icp_loop", "icp_estimate"} =>
                 /\ Len(estimated) = i
                 /\ ops.transform = i + 1
            /\ pc = "icp_transform" =>
                 /\ Len(estimated) = i + 1
                 /\ ops.transform = i + 1
                 /\ heap["clone"] = estimated[i + 1].source
                 /\ transformation_device.val = LeftProduct(estimated, transformation.val)
            /\ pc \in {"icp_reevaluate", "icp_converged"} =>
                 /\ Len(estimated) = i + 1
                 /\ ops.transform = i + 2
                 /\ heap["clone"] = TransformPoints(estimated[i + 1].source, update))
    /\ [][/\ pc = "icp_estimate" => pc' = "icp_transform"
          /\ pc = "icp_transform" => pc' = "icp_reevaluate"
          /\ pc = "icp_reevaluate" => pc' \in {"icp_converged", "raised"}
          /\ pc = "icp_converged" => pc' \in {"icp_loop", "icp_return"}
          /\ pc' = "icp_estimate" => pc = "icp_loop"
         ]_vars

\* two iterations whose estimator calls were given different working
\* sources and different correspondence sets
C16_Witness ==
    /\ pc = "done"
    /\ ret.entry = "RegistrationICP"
    /\ Len(estimated) = 2
    /\ estimated[1].source # estimated[2].source
    /\ estimated[1].corres # estimated[2].corres
    /\ estimated[2].corres # EmptyCorrespondenceSet
    /\ transformation.val # Identity

\* the part of heap_ at and above heap_counter_
FreePart == {k \in DOMAIN heap_ : k >= heap_counter_}
Unallocated == {s \in Slots : Holders(s) = 0}

\* C17: in sequential use, between calls heap_counter_ is the number of
\* slots handed out and heap_[heap_counter_ .. max_capacity_ - 1] holds
\* exactly the slots not handed out, each once; no slot is ever handed out
\* while it is still held, and no access leaves heap_.
C17_SequentialInvariant ==
    use = "sequential" =>
        /\ fault = "none"
        /\ \A s \in Slots : Holders(s) <= 1
        /\ Quiescent =>
             /\ heap_counter_ = Outstanding
             /\ heap_counter_ \in 0..max_capacity_
             /\ {heap_[k] : k \in FreePart} = Unallocated
             /\ \A j, k \in FreePart : j # k => heap_[j] # heap_[k]

\* every slot is handed out again after frees that reordered heap_
C17_Witness ==
    /\ use = "sequential"
    /\ Quiescent
    /\ Outstanding = max_capacity_
    /\ heap_ # ResetInternalKvPairManagerKernel(max_capacity_)
    /\ \A t \in Threads : \E s \in Slots : held[t][s] = 1

\* C18: in concurrent use of Allocate and Free, whatever the interleaving
\* of their steps, no slot is held twice and, once every call has ended,
\* every slot not held is in the free part of heap_.
C18_ConcurrentSafe ==
    use = "concurrent" =>
        /\ \A s \in Slots : Holders(s) <= 1
        /\ Quiescent => Unallocated \subseteq {heap_[k] : k \in FreePart}

\* C19: in an allocation-only phase the slots returned are pairwise distinct
\* slots of 0 .. max_capacity_ - 1 read inside heap_, the calls in flight
\* hold distinct indices, and heap_counter_ counts the calls made: once
\* they have all returned it is the number of slots handed out.
C19_AllocationOnly ==
    use = "allocate_only" =>
        /\ fault = "none"
        /\ heap_ = ResetInternalKvPairManagerKernel(max_capacity_)
        /\ \A s \in Slots : Holders(s) <= 1
        /\ \A t \in Threads : thread[t].pc = "Allocate" =>
             /\ thread[t].index \in Slots
             /\ Holders(heap_[thread[t].index]) = 0
             /\ \A u \in Threads \ {t} :
                  thread[u].pc = "Allocate" => thread[u].index # thread[t].index
        /\ heap_counter_ = Outstanding + InCall({"Allocate"})
        /\ heap_counter_ <= max_capacity_

\* two calls overlap: the one that took index 1 has returned its slot
\* while the one that took index 0 has not yet read heap_
C19_Witness ==
    /\ use = "allocate_only"
    /\ heap_counter_ = 2
    /\ thread[1].pc = "Allocate" /\ thread[1].index = 0
    /\ thread[2].pc = "idle" /\ held[2][1] = 1

\* C20: with SafeAllocate and SafeFree, whatever the calls and their
\* interleaving, no call whose assertion passed accesses heap_ outside
\* 0 .. max_capacity_ - 1; a SafeAllocate that drew an index at or above
\* max_capacity_ (every slot handed out) fails its assertion and returns no
\* slot, and a SafeFree that drew an index below 1 (no slot handed out)
\* fails its assertion and does not write heap_.
C20_SafeBounds ==
    /\ [](use = "safe" => fault # "out_of_bounds")
    /\ [][\A t \in Threads :
            /\ (/\ thread[t].pc = "SafeAllocate"
                /\ thread[t].index >= max_capacity_
                /\ thread'[t] # thread[t])
               => held' = held /\ fault' = "assert"
            /\ (/\ thread[t].pc = "SafeFree"
                /\ thread[t].index < 1
                /\ thread'[t] # thread[t])
               => heap_' = heap_ /\ fault' = "assert"
         ]_vars


\* the sizes of a list of depth d level by level from the outermost, each
\* level taken at its first sublist, ending with the first size 0
RECURSIVE LevelSizes(_, _)
LevelSizes(t, d) ==
    IF d = 0 THEN << >>
    ELSE IF Len(t) = 0 THEN <<0>>
    ELSE <<Len(t)>> \o LevelSizes(t[1], d - 1)

\* at some nesting level two sublists of one list differ in size or in the
\* sizes below them
RECURSIVE RaggedList(_, _)
RaggedList(t, d) ==
    /\ d >= 2
    /\ \E j \in 1..Len(t) :
        \/ RaggedList(t[j], d - 1)
        \/ \E k \in 1..Len(t) : LevelSizes(t[j], d - 1) # LevelSizes(t[k], d - 1)

\* the scalar of t at offset k of the row-major layout of a tensor of the
\* given sizes
RECURSIVE RowMajorAt(_, _, _)
RowMajorAt(t, sizes, k) ==
    IF sizes = << >> THEN t
    ELSE LET stride == NumElements(Tail(sizes))
         IN  RowMajorAt(t[(k \div stride) + 1], Tail(sizes), k % stride)

\* C21: InferShape raises the ragged-nested-sequences error exactly when two
\* sublists at some nesting level differ in size or in the shape below them;
\* otherwise the shape it returns is the list sizes level by level from the
\* outermost, cut off right after the first size 0, and ToFlatVector makes a
\* vector of shape.NumElements() values, assigns exactly that many, none
\* outside the vector, and leaves the list's scalars in row-major order.
C21_InferShapeAndFlatten ==
    /\ init_pc \in {"raised", "inferred", "copying", "done", "fault"} =>
        (init_pc = "raised" <=> RaggedList(nested_list, dim))
    /\ init_pc = "raised" => init_error = RaggedError
    /\ init_pc \in {"inferred", "copying", "done"} =>
        /\ init_error = NoError
        /\ shape = LevelSizes(nested_list, dim)
    /\ init_pc \in {"copying", "done"} =>
        /\ Len(values) = NumElements(shape)
        /\ values_iter <= Len(values)
    /\ init_pc # "fault"
    /\ init_pc = "done" =>
        /\ values_iter = NumElements(shape)
        /\ \A k \in 0..(Len(values) - 1) :
            values[k + 1] = RowMajorAt(nested_list, shape, k)

\* a list of depth 3 whose second level is empty was cut to two dimensions
\* and flattened to no value
C21_Witness ==
    /\ init_pc = "done"
    /\ dim = 3
    /\ shape = <<2, 0>>
    /\ values = << >>

====
